---- MODULE Spec2Model ----
(***************************************************************************)
(* The availability and booking core of backend/server.py: the feature     *)
(* gate, the working-hours resolver, the slot generator, the conflict      *)
(* guard and the booking lifecycle (create, status update, reschedule)     *)
(* with its audit trail.                                                   *)
(*                                                                         *)
(* Time is counted in minutes.  An ISO-8601 string                         *)
(* "YYYY-MM-DDTHH:MM:SS+hh:mm" is the pair of its wall-clock part (local:  *)
(* minutes since 00:00 of day 0) and its UTC offset (off: minutes).  A     *)
(* timezone-aware datetime is the pair of its instant (minutes, UTC) and   *)
(* its offset.  MongoDB compares the stored strings as strings; Python     *)
(* compares datetimes as instants.                                         *)
(***************************************************************************)
EXTENDS Integers, Sequences, FiniteSets, TLC

VARIABLES
    bookings,   \* db.bookings: the sequence of booking documents; a booking's id is its index
    changes,    \* db.booking_changes: the audit records, in insertion order
    features,   \* db.feature_flags "global_features": "absent", "on" or "off"
    salon,      \* db.salon_profile: the schedule configuration of the salon
    now,        \* the current instant (minutes, UTC) that datetime.now reads
    last,       \* the last request handled one at a time: its operation and HTTP status
    calls,      \* per booking, the history of the successful calls on it
    req         \* the requests in flight, one per worker: position, arguments, locals

vars == <<bookings, changes, features, salon, now, last, calls, req>>

----------------------------------------------------------------------------
(* Bounds of the model. *)

\* the successful writes (bookings inserted and audit records) of a run
MaxWrites == 4

\* the bookings of a run that also queries availability
MaxSlotBookings == 2

----------------------------------------------------------------------------
(* Time strings and datetimes. *)

IST == 330
MinsPerDay == 24 * 60

Iso(local, off) == [local |-> local, off |-> off]

\* None where the code has an Optional[str] time
NoTime == [local |-> 0, off |-> 0 - 1]

\* datetime.fromisoformat: the instant and the tzinfo of the string
parse_time(s) == [instant |-> s.local - s.off, off |-> s.off]

\* datetime.isoformat: the wall clock in the datetime's own offset, and that offset
isoformat(dt) == [local |-> dt.instant + dt.off, off |-> dt.off]

\* dt + timedelta(minutes = mins)
PlusMinutes(dt, mins) == [instant |-> dt.instant + mins, off |-> dt.off]

\* a < b on stored strings ($lt, $gt): lexicographic, so the wall-clock part
\* decides and the offset suffix ("+00:00" before "+05:30") breaks the tie
StrLt(a, b) == a.local < b.local \/ (a.local = b.local /\ a.off < b.off)

\* a < b on datetimes: by instant
DtLt(a, b) == a.instant < b.instant

\* datetime.now(IST)
NowIST == [instant |-> now, off |-> IST]

\* the calendar day (IST) of the current instant
Today == (now + IST) \div MinsPerDay

----------------------------------------------------------------------------
(* Catalogue and enumerations. *)

PENDING == "pending"
CONFIRMED == "confirmed"
CANCELLED == "cancelled"
COMPLETED == "completed"
NO_SHOW == "no_show"

valid_statuses == {PENDING, CONFIRMED, CANCELLED, COMPLETED, NO_SHOW}

None == "none"

\* db.services: the seeded catalogue (duration in minutes), and one inactive service
Services ==
    [id \in {"svc-6", "svc-3", "svc-old"} |->
        CASE id = "svc-6" -> [durationMins |-> 30, active |-> TRUE]
          [] id = "svc-3" -> [durationMins |-> 60, active |-> TRUE]
          [] OTHER -> [durationMins |-> 30, active |-> FALSE]]

\* db.services.find_one({"id": sid, "active": True})
ActiveService(sid) == sid \in DOMAIN Services /\ Services[sid].active

\* (mutant) a missing flag document counts as enabled
BookingEnabled_AbsentIsOn == features # "off"

\* check_booking_enabled: the flag document exists and its flag is true
BookingEnabled == features = "on"

----------------------------------------------------------------------------
(* ConflictGuard. *)

\* the documents the count_documents query of check_slot_available matches
OverlapQuery(start_time, end_time, exclude_booking_id) ==
    {i \in DOMAIN bookings :
        /\ bookings[i].status # CANCELLED
        /\ StrLt(bookings[i].startTime, end_time)
        /\ StrLt(start_time, bookings[i].endTime)
        /\ (exclude_booking_id # 0 => i # exclude_booking_id)}

\* db.salon_profile.find_one({}) found nothing
NoSalon == [missing |-> TRUE]

\* total_seats = salon.get("totalSeats", 1) if salon else 1
TotalSeats == IF salon = NoSalon THEN 1 ELSE salon.totalSeats

check_slot_available(start_time, end_time, exclude_booking_id) ==
    Cardinality(OverlapQuery(start_time, end_time, exclude_booking_id)) < TotalSeats

----------------------------------------------------------------------------
(* BookingLifecycle, one request at a time. *)

\* (mutant) the durations of all requested services, active or not
RECURSIVE SumDurations_AllServices(_)
SumDurations_AllServices(sids) ==
    IF sids = <<>> THEN 0
    ELSE Services[Head(sids)].durationMins + SumDurations_AllServices(Tail(sids))

RECURSIVE SumDurations(_)
SumDurations(sids) ==
    IF sids = <<>> THEN 0
    ELSE (IF ActiveService(Head(sids)) THEN Services[Head(sids)].durationMins ELSE 0)
         + SumDurations(Tail(sids))

AnyActive(sids) == \E i \in DOMAIN sids : ActiveService(sids[i])

\* data.serviceIds if data.serviceIds else [data.serviceId]
RequestedServices(serviceId, serviceIds) ==
    IF serviceIds # <<>> THEN serviceIds ELSE <<serviceId>>

\* total_duration: the override when given, else the sum over the active services
TotalDuration(serviceId, serviceIds, totalDuration) ==
    IF totalDuration # 0 THEN totalDuration
    ELSE SumDurations(RequestedServices(serviceId, serviceIds))

\* the end time create_public_booking computes for a request
CreateEndTime(serviceId, serviceIds, startTime, totalDuration) ==
    isoformat(PlusMinutes(parse_time(startTime),
                          TotalDuration(serviceId, serviceIds, totalDuration)))

\* the HTTP status of create_public_booking
CreateStatus(serviceId, serviceIds, startTime, totalDuration) ==
    IF ~BookingEnabled THEN 403
    ELSE IF salon = NoSalon THEN 404
    ELSE IF ~AnyActive(RequestedServices(serviceId, serviceIds)) THEN 404
    ELSE IF ~check_slot_available(startTime,
                CreateEndTime(serviceId, serviceIds, startTime, totalDuration), 0)
         THEN 409
    ELSE 200

\* the phone numbers clients give; the specifications with one client use the first
ClientPhones == {"919800000001", "919800000002"}
ClientPhone == "919800000001"

NewBooking(clientPhone, serviceId, startTime, endTime) ==
    [clientPhone |-> clientPhone, serviceId |-> serviceId, staffId |-> None,
     startTime |-> startTime, endTime |-> endTime, status |-> PENDING]

\* the history kept of a booking: the successful calls on it, by kind, and the
\* duration (minutes) its creation request came to
Created(total_duration) ==
    [create |-> 1, status |-> 0, reschedule |-> 0, duration |-> total_duration]

create_public_booking(clientPhone, serviceId, serviceIds, startTime, totalDuration) ==
    LET code == CreateStatus(serviceId, serviceIds, startTime, totalDuration)
        end_time == CreateEndTime(serviceId, serviceIds, startTime, totalDuration)
    IN  /\ code = 200 => Len(bookings) + Len(changes) < MaxWrites
        /\ last' = [op |-> "createBooking", code |-> code]
        /\ IF code = 200
           THEN /\ bookings' = Append(bookings,
                                    NewBooking(clientPhone, serviceId, startTime, end_time))
                /\ calls' = Append(calls,
                        Created(TotalDuration(serviceId, serviceIds, totalDuration)))
           ELSE UNCHANGED <<bookings, calls>>
        /\ UNCHANGED <<changes, features, salon, now, req>>

\* whatsapp_url = None
NoUrl == [phone |-> None, type |-> None, date |-> 0 - 1, time |-> 0 - 1]

\* strftime("%d %b %Y") and strftime("%I:%M %p"): the calendar day and the time of
\* day on the wall clock of the datetime's own offset
FormatDate(dt) == (dt.instant + dt.off) \div MinsPerDay
FormatTime(dt) == (dt.instant + dt.off) % MinsPerDay

\* the wa.me link: the phone it is addressed to, and the kind, date and time its
\* message text carries
generate_whatsapp_notification(booking, notification_type, new_time) ==
    LET start_time == parse_time(booking.startTime)
        new_start == IF new_time # NoTime THEN parse_time(new_time) ELSE start_time
    IN  IF salon = NoSalon THEN NoUrl
        ELSE IF notification_type \in {"confirmed", "cancelled"}
        THEN [phone |-> booking.clientPhone, type |-> notification_type,
              date |-> FormatDate(start_time), time |-> FormatTime(start_time)]
        ELSE IF notification_type = "rescheduled"
        THEN [phone |-> booking.clientPhone, type |-> notification_type,
              date |-> FormatDate(new_start), time |-> FormatTime(new_start)]
        ELSE NoUrl

\* the whatsappNotificationUrl of update_booking_status, from the updated booking
StatusNotification(updated_booking, status) ==
    IF status \in {CONFIRMED, CANCELLED}
    THEN generate_whatsapp_notification(updated_booking, status, NoTime)
    ELSE NoUrl

\* a response that carries a whatsappNotificationUrl when the request succeeded
Response(op, code, whatsapp_url) ==
    IF code = 200
    THEN [op |-> op, code |-> code, whatsappNotificationUrl |-> whatsapp_url]
    ELSE [op |-> op, code |-> code]

\* (mutant) the status is not validated
UpdateStatusCode_AnyStatus(booking_id, status) ==
    IF ~BookingEnabled THEN 403
    ELSE IF booking_id \notin DOMAIN bookings THEN 404
    ELSE 200

\* (mutant) a booking that is cancelled, completed or a no-show keeps its status
UpdateStatusCode_TerminalIsFinal(booking_id, status) ==
    IF ~BookingEnabled THEN 403
    ELSE IF booking_id \notin DOMAIN bookings THEN 404
    ELSE IF status \notin valid_statuses THEN 400
    ELSE IF bookings[booking_id].status \in {CANCELLED, COMPLETED, NO_SHOW} THEN 400
    ELSE 200

\* the HTTP status of update_booking_status
UpdateStatusCode(booking_id, status) ==
    IF ~BookingEnabled THEN 403
    ELSE IF booking_id \notin DOMAIN bookings THEN 404
    ELSE IF status \notin valid_statuses THEN 400
    ELSE 200

\* (mutant) the request's staffId is stored even when it is omitted
StatusUpdate_StoresOmittedStaff(booking, status, staffId) ==
    [booking EXCEPT !.status = status, !.staffId = staffId]

\* the $set of update_booking_status applied to a booking document
StatusUpdate(booking, status, staffId) ==
    [booking EXCEPT !.status = status,
                    !.staffId = IF staffId # None THEN staffId ELSE @]

\* the BookingChange update_booking_status inserts
StatusChange(booking_id, booking, status, staffId) ==
    [bookingId |-> booking_id, oldStartTime |-> NoTime, newStartTime |-> NoTime,
     oldStaffId |-> booking.staffId, newStaffId |-> staffId,
     oldStatus |-> booking.status, newStatus |-> status]

\* (mutant) no record when the status update changes nothing
LogStatusChange_SkipsNoChange(booking_id, booking, status, staffId) ==
    IF booking.status = status /\ staffId = None THEN changes
    ELSE Append(changes, StatusChange(booking_id, booking, status, staffId))

\* db.booking_changes.insert_one(change) of update_booking_status
LogStatusChange(booking_id, booking, status, staffId) ==
    Append(changes, StatusChange(booking_id, booking, status, staffId))

update_booking_status(booking_id, status, staffId) ==
    LET code == UpdateStatusCode(booking_id, status)
    IN  /\ code = 200 => Len(bookings) + Len(changes) < MaxWrites
        /\ last' = Response("updateBookingStatus", code,
                    StatusNotification(StatusUpdate(bookings[booking_id], status, staffId),
                                       status))
        /\ IF code = 200
           THEN LET booking == bookings[booking_id]
                IN  /\ bookings' = [bookings EXCEPT
                            ![booking_id] = StatusUpdate(booking, status, staffId)]
                    /\ changes' = LogStatusChange(booking_id, booking, status, staffId)
                    /\ calls' = [calls EXCEPT ![booking_id].status = @ + 1]
           ELSE UNCHANGED <<bookings, changes, calls>>
        /\ UNCHANGED <<features, salon, now, req>>

\* int((old_end_time - old_start_time).total_seconds() / 60): whole minutes, towards zero
DurationMins(booking) ==
    parse_time(booking.endTime).instant - parse_time(booking.startTime).instant

\* (mutant) the new end from the duration of the booking's primary service
RescheduleEndTime_FromService(booking, newStartTime) ==
    isoformat(PlusMinutes(parse_time(newStartTime), Services[booking.serviceId].durationMins))

\* new_end.isoformat(): the new start plus the booking's own duration
RescheduleEndTime(booking, newStartTime) ==
    isoformat(PlusMinutes(parse_time(newStartTime), DurationMins(booking)))

\* (mutant) the availability check before the past-time check
RescheduleCode_ConflictFirst(booking_id, newStartTime) ==
    IF ~BookingEnabled THEN 403
    ELSE IF booking_id \notin DOMAIN bookings THEN 404
    ELSE IF ~check_slot_available(newStartTime,
                RescheduleEndTime(bookings[booking_id], newStartTime), booking_id)
         THEN 409
    ELSE IF DtLt(parse_time(newStartTime), NowIST) THEN 400
    ELSE 200

\* the HTTP status of reschedule_booking
RescheduleCode(booking_id, newStartTime) ==
    IF ~BookingEnabled THEN 403
    ELSE IF booking_id \notin DOMAIN bookings THEN 404
    ELSE IF DtLt(parse_time(newStartTime), NowIST) THEN 400
    ELSE IF ~check_slot_available(newStartTime,
                RescheduleEndTime(bookings[booking_id], newStartTime), booking_id)
         THEN 409
    ELSE 200

\* (mutant) the reschedule leaves the status as it was
RescheduleUpdate_KeepsStatus(booking, newStartTime, staffId) ==
    [booking EXCEPT !.startTime = newStartTime,
                    !.endTime = RescheduleEndTime(booking, newStartTime),
                    !.staffId = IF staffId # None THEN staffId ELSE @]

\* the $set of reschedule_booking applied to a booking document
RescheduleUpdate(booking, newStartTime, staffId) ==
    [booking EXCEPT !.startTime = newStartTime,
                    !.endTime = RescheduleEndTime(booking, newStartTime),
                    !.status = CONFIRMED,
                    !.staffId = IF staffId # None THEN staffId ELSE @]

\* the BookingChange reschedule_booking inserts
RescheduleChange(booking_id, booking, newStartTime, staffId) ==
    [bookingId |-> booking_id, oldStartTime |-> booking.startTime,
     newStartTime |-> newStartTime,
     oldStaffId |-> booking.staffId, newStaffId |-> staffId,
     oldStatus |-> None, newStatus |-> None]

\* db.booking_changes.insert_one(change) of reschedule_booking
LogReschedule(booking_id, booking, newStartTime, staffId) ==
    Append(changes, RescheduleChange(booking_id, booking, newStartTime, staffId))

\* (mutant) the booking is updated before the availability check, so a refused
\* reschedule leaves the new times behind
reschedule_booking_WriteFirst(booking_id, newStartTime, staffId) ==
    LET code == RescheduleCode(booking_id, newStartTime)
    IN  /\ code = 200 => Len(bookings) + Len(changes) < MaxWrites
        /\ last' = Response("rescheduleBooking", code,
                    generate_whatsapp_notification(
                        RescheduleUpdate(bookings[booking_id], newStartTime, staffId),
                        "rescheduled", newStartTime))
        /\ IF code \in {200, 409}
           THEN LET booking == bookings[booking_id]
                IN  bookings' = [bookings EXCEPT
                        ![booking_id] = RescheduleUpdate(booking, newStartTime, staffId)]
           ELSE UNCHANGED bookings
        /\ IF code = 200
           THEN /\ changes' = LogReschedule(booking_id, bookings[booking_id],
                                            newStartTime, staffId)
                /\ calls' = [calls EXCEPT ![booking_id].reschedule = @ + 1]
           ELSE UNCHANGED <<changes, calls>>
        /\ UNCHANGED <<features, salon, now, req>>

reschedule_booking(booking_id, newStartTime, staffId) ==
    LET code == RescheduleCode(booking_id, newStartTime)
    IN  /\ code = 200 => Len(bookings) + Len(changes) < MaxWrites
        /\ last' = Response("rescheduleBooking", code,
                    generate_whatsapp_notification(
                        RescheduleUpdate(bookings[booking_id], newStartTime, staffId),
                        "rescheduled", newStartTime))
        /\ IF code = 200
           THEN LET booking == bookings[booking_id]
                IN  /\ bookings' = [bookings EXCEPT
                            ![booking_id] = RescheduleUpdate(booking, newStartTime, staffId)]
                    /\ changes' = LogReschedule(booking_id, booking, newStartTime, staffId)
                    /\ calls' = [calls EXCEPT ![booking_id].reschedule = @ + 1]
           ELSE UNCHANGED <<bookings, changes, calls>>
        /\ UNCHANGED <<features, salon, now, req>>

----------------------------------------------------------------------------
(* WorkingHoursResolver, SlotGenerator, CapacityEvaluator, AvailabilityService. *)

DayNames == <<"monday", "tuesday", "wednesday", "thursday", "friday", "saturday", "sunday">>

\* date.strftime("%A").lower(); day 0 is a Monday
get_day_name(date) == DayNames[(date % 7) + 1]

HHMM(h, m) == [h |-> h, m |-> m]

\* the seeded workingHoursJson
default_working_hours ==
    [i \in 1..7 |->
        IF DayNames[i] = "sunday"
        THEN [day |-> DayNames[i], open |-> HHMM(11, 0), close |-> HHMM(18, 0), closed |-> FALSE]
        ELSE [day |-> DayNames[i], open |-> HHMM(10, 0), close |-> HHMM(20, 0), closed |-> FALSE]]

\* (None, None): the day is closed
Closed == [closed |-> TRUE, open |-> HHMM(0, 0), close |-> HHMM(0, 0)]

RECURSIVE FirstMatch(_, _)
FirstMatch(working_hours, day_name) ==
    IF working_hours = <<>>
    THEN [closed |-> FALSE, open |-> HHMM(10, 0), close |-> HHMM(20, 0)]
    ELSE IF Head(working_hours).day = day_name
         THEN (IF Head(working_hours).closed THEN Closed
               ELSE [closed |-> FALSE, open |-> Head(working_hours).open,
                     close |-> Head(working_hours).close])
    ELSE FirstMatch(Tail(working_hours), day_name)

get_working_hours_for_date(date) == FirstMatch(salon.workingHoursJson, get_day_name(date))

\* target_date.replace(hour = h, minute = m, tzinfo = IST)
AtTime(date, t) == parse_time(Iso(date * MinsPerDay + t.h * 60 + t.m, IST))

\* the bookings get_available_slots loads for the day: not cancelled, and the
\* stored startTime string within [date T00:00:00+05:30, date T23:59:59+05:30)
DayQuery(date) ==
    {i \in DOMAIN bookings :
        /\ bookings[i].status # CANCELLED
        /\ ~StrLt(bookings[i].startTime, Iso(date * MinsPerDay, IST))
        /\ bookings[i].startTime.local < (date + 1) * MinsPerDay}

\* the overlapping_count of a candidate window among the day's bookings
OverlapCount(date, current_slot, slot_end) ==
    Cardinality({i \in DayQuery(date) :
        ~(~DtLt(parse_time(bookings[i].startTime), slot_end)
          \/ ~DtLt(current_slot, parse_time(bookings[i].endTime)))})

\* is_available of a candidate window
SlotIsAvailable(date, current_slot, slot_end) ==
    /\ OverlapCount(date, current_slot, slot_end) < salon.totalSeats
    /\ ~(date = Today /\ DtLt(current_slot, NowIST))

\* (mutant) the loop runs while the window starts by closing time
RECURSIVE SlotLoop_StartsByClose(_, _, _, _, _)
SlotLoop_StartsByClose(date, day_start, k, duration, day_end) ==
    LET current_slot == PlusMinutes(day_start, k * salon.slotDurationMins)
        slot_end == PlusMinutes(current_slot, duration)
    IN  IF DtLt(day_end, current_slot) THEN <<>>
        ELSE (IF SlotIsAvailable(date, current_slot, slot_end)
              THEN <<[startTime |-> isoformat(current_slot),
                      endTime |-> isoformat(slot_end),
                      remainingSeats |-> salon.totalSeats
                                         - OverlapCount(date, current_slot, slot_end)]>>
              ELSE <<>>)
             \o SlotLoop_StartsByClose(date, day_start, k + 1, duration, day_end)

\* the while loop of get_available_slots from its k-th iteration on, where
\* current_slot is the opening time plus k steps of slotDurationMins
RECURSIVE SlotLoop(_, _, _, _, _)
SlotLoop(date, day_start, k, duration, day_end) ==
    LET current_slot == PlusMinutes(day_start, k * salon.slotDurationMins)
        slot_end == PlusMinutes(current_slot, duration)
    IN  IF DtLt(day_end, slot_end) THEN <<>>
        ELSE (IF SlotIsAvailable(date, current_slot, slot_end)
              THEN <<[startTime |-> isoformat(current_slot),
                      endTime |-> isoformat(slot_end),
                      remainingSeats |-> salon.totalSeats
                                         - OverlapCount(date, current_slot, slot_end)]>>
              ELSE <<>>)
             \o SlotLoop(date, day_start, k + 1, duration, day_end)

\* duration = total_duration if total_duration else service.get("durationMins", 30)
SlotDuration(service_id, total_duration) ==
    IF total_duration # 0 THEN total_duration ELSE Services[service_id].durationMins

\* the while loop of get_available_slots is entered and never left: current_slot
\* does not advance, so current_slot + duration <= day_end stays true
SlotLoopDiverges(service_id, date, total_duration) ==
    /\ salon # NoSalon
    /\ ActiveService(service_id)
    /\ get_working_hours_for_date(date) # Closed
    /\ salon.slotDurationMins <= 0
    /\ ~DtLt(AtTime(date, get_working_hours_for_date(date).close),
             PlusMinutes(AtTime(date, get_working_hours_for_date(date).open),
                         SlotDuration(service_id, total_duration)))

\* the slots get_available_slots returns (the empty list stands for no return when
\* SlotLoopDiverges)
get_available_slots(service_id, date, total_duration) ==
    IF salon = NoSalon THEN <<>>
    ELSE IF ~ActiveService(service_id) THEN <<>>
    ELSE LET duration == SlotDuration(service_id, total_duration)
             hours == get_working_hours_for_date(date)
         IN  IF hours = Closed THEN <<>>
             ELSE IF SlotLoopDiverges(service_id, date, total_duration) THEN <<>>
             ELSE SlotLoop(date, AtTime(date, hours.open), 0, duration,
                           AtTime(date, hours.close))

----------------------------------------------------------------------------
(* The read operations, the feature flags and the clock. *)

\* a request that is never answered
NoResponse == 0

\* the HTTP status of get_availability
AvailabilityCode(serviceId, date, totalDuration) ==
    IF ~BookingEnabled THEN 403
    ELSE IF salon = NoSalon THEN 404
    ELSE IF SlotLoopDiverges(serviceId, date, totalDuration) THEN NoResponse
    ELSE 200

\* get_availability: last keeps the query and the slots of the response
get_availability(serviceId, date, totalDuration) ==
    LET code == AvailabilityCode(serviceId, date, totalDuration)
    IN  /\ last' = [op |-> "getAvailability", code |-> code,
                    serviceId |-> serviceId, date |-> date,
                    totalDuration |-> totalDuration,
                    slots |-> IF code = 200
                              THEN get_available_slots(serviceId, date, totalDuration)
                              ELSE <<>>]
        /\ UNCHANGED <<bookings, changes, features, salon, now, calls, req>>

get_salon_bookings ==
    /\ last' = [op |-> "listBookings", code |-> IF ~BookingEnabled THEN 403 ELSE 200]
    /\ UNCHANGED <<bookings, changes, features, salon, now, calls, req>>

get_booking_detail(booking_id) ==
    /\ last' = [op |-> "getBookingDetail",
                code |-> IF ~BookingEnabled THEN 403
                         ELSE IF booking_id \notin DOMAIN bookings THEN 404 ELSE 200]
    /\ UNCHANGED <<bookings, changes, features, salon, now, calls, req>>

get_booking_changes(booking_id) ==
    /\ last' = [op |-> "getBookingChanges", code |-> IF ~BookingEnabled THEN 403 ELSE 200]
    /\ UNCHANGED <<bookings, changes, features, salon, now, calls, req>>

\* the days get_next_available_slots looks at
Horizon == 14

\* how many slots get_next_available_slots returns
NextLimit == 3

\* slots after days_checked turns of the while loop of get_next_available_slots
RECURSIVE ScanDays(_, _)
ScanDays(serviceId, days_checked) ==
    IF days_checked = 0 THEN <<>>
    ELSE LET slots == ScanDays(serviceId, days_checked - 1)
         IN  IF Len(slots) < NextLimit
             THEN slots \o get_available_slots(serviceId, Today + days_checked - 1, 0)
             ELSE slots

\* the turns of the while loop of get_next_available_slots
RECURSIVE DaysChecked(_, _)
DaysChecked(serviceId, days_checked) ==
    IF Len(ScanDays(serviceId, days_checked)) < NextLimit /\ days_checked < Horizon
    THEN DaysChecked(serviceId, days_checked + 1)
    ELSE days_checked

\* one of the days the scan reaches makes get_available_slots loop for ever
ScanDiverges(serviceId) ==
    \E i \in 0..(Horizon - 1) :
        /\ SlotLoopDiverges(serviceId, Today + i, 0)
        /\ (i = 0 \/ Len(ScanDays(serviceId, i)) < NextLimit)

\* slots[:3]
FirstSlots(slots) == SubSeq(slots, 1, IF Len(slots) < NextLimit THEN Len(slots) ELSE NextLimit)

\* the HTTP status of get_next_available_slots
NextAvailableCode(serviceId) ==
    IF ~BookingEnabled THEN 403
    ELSE IF salon = NoSalon THEN 404
    ELSE IF ScanDiverges(serviceId) THEN NoResponse
    ELSE 200

get_next_available_slots(serviceId) ==
    LET code == NextAvailableCode(serviceId)
    IN  /\ last' = [op |-> "getNextAvailable", code |-> code,
                    serviceId |-> serviceId,
                    slots |-> IF code = 200
                              THEN FirstSlots(ScanDays(serviceId, Horizon))
                              ELSE <<>>,
                    days |-> IF code = 200 THEN DaysChecked(serviceId, 0) ELSE 0]
        /\ UNCHANGED <<bookings, changes, features, salon, now, calls, req>>

\* patch_salon_profile: $set of the given fields on the salon document, if any
patch_salon_profile(data) ==
    /\ salon' = IF salon = NoSalon THEN salon
                ELSE [f \in DOMAIN salon |-> IF f \in DOMAIN data THEN data[f] ELSE salon[f]]
    /\ last' = [op |-> "patchSalon", code |-> 200]
    /\ UNCHANGED <<bookings, changes, features, now, calls, req>>

\* update_feature_flags: upsert of the flag document
update_feature_flags(booking_calendar_enabled) ==
    /\ features' = IF booking_calendar_enabled THEN "on" ELSE "off"
    /\ last' = [op |-> "updateFeatures", code |-> 200]
    /\ UNCHANGED <<bookings, changes, salon, now, calls, req>>

\* the instant the model starts at: 10:15 IST on day 0
ClockStart == parse_time(Iso(10 * 60 + 15, IST)).instant

----------------------------------------------------------------------------
(* The requests of the model. *)

\* 10:00 (already past at ClockStart) and 10:30 of day 0, written in IST
StartTimes == {Iso(10 * 60, IST), Iso(10 * 60 + 30, IST)}

\* the same, and 10:30 IST written in UTC ("...T05:00:00+00:00")
MixedStartTimes == StartTimes \cup {Iso(5 * 60, 0)}

\* the service of a request, and its totalDuration override (0: none given)
CreateShapes ==
    {[serviceId |-> "svc-6", totalDuration |-> 0],
     [serviceId |-> "svc-6", totalDuration |-> 60],
     [serviceId |-> "svc-old", totalDuration |-> 0]}

\* the ids of the stored bookings, and one id that no booking has
BookingIds == 1..(Len(bookings) + 1)
Dates == {0}

Init ==
    /\ bookings = <<>>
    /\ changes = <<>>
    /\ features = "on"
    /\ salon = [totalSeats |-> 1, slotDurationMins |-> 30,
                workingHoursJson |-> default_working_hours]
    /\ now = ClockStart
    /\ last = [op |-> None, code |-> 0]
    /\ calls = <<>>
    /\ req = <<>>

\* the booking lifecycle, one request at a time, with the gate enabled
Next ==
    \/ \E r \in CreateShapes, st \in StartTimes :
            create_public_booking(ClientPhone, r.serviceId, <<>>, st, r.totalDuration)
    \/ \E b \in BookingIds, s \in valid_statuses : update_booking_status(b, s, None)
    \/ \E b \in BookingIds, st \in StartTimes : reschedule_booking(b, st, None)

Spec == Init /\ [][Next]_vars

\* the same lifecycle when clients write their start times in different UTC offsets
NextOffsets ==
    \/ \E r \in CreateShapes, st \in MixedStartTimes :
            r.serviceId # "svc-old"
            /\ create_public_booking(ClientPhone, r.serviceId, <<>>, st, r.totalDuration)
    \/ \E b \in BookingIds, s \in valid_statuses : update_booking_status(b, s, None)
    \/ \E b \in BookingIds, st \in MixedStartTimes : reschedule_booking(b, st, None)

SpecOffsets == Init /\ [][NextOffsets]_vars

\* every gated operation, one request at a time, while an administrator
\* switches the gate; the flag document does not exist at first
InitGate ==
    /\ bookings = <<>>
    /\ changes = <<>>
    /\ features = "absent"
    /\ salon = [totalSeats |-> 1, slotDurationMins |-> 30,
                workingHoursJson |-> default_working_hours]
    /\ now = ClockStart
    /\ last = [op |-> None, code |-> 0]
    /\ calls = <<>>
    /\ req = <<>>

GateServiceIds == {"svc-6", "svc-old"}

NextGate ==
    \/ \E sid \in GateServiceIds, st \in StartTimes :
            create_public_booking(ClientPhone, sid, <<>>, st, 0)
    \/ \E b \in BookingIds, s \in {CONFIRMED, CANCELLED} : update_booking_status(b, s, None)
    \/ \E b \in BookingIds, st \in StartTimes : reschedule_booking(b, st, None)
    \/ \E sid \in GateServiceIds, d \in Dates : get_availability(sid, d, 0)
    \/ get_salon_bookings
    \/ \E b \in BookingIds : get_booking_detail(b)
    \/ \E b \in BookingIds : get_booking_changes(b)
    \/ \E sid \in GateServiceIds : get_next_available_slots(sid)
    \/ \E v \in BOOLEAN : update_feature_flags(v)

SpecGate == InitGate /\ [][NextGate]_vars

\* the staffId of a request: omitted, or one of the seeded staff
StaffInputs == {None, "staff-1", "staff-2"}

\* the status of a status update: two recognised values and one that is not
StatusInputs == {CONFIRMED, CANCELLED, "invalid_status"}

\* one request at a time, with staff assignment and unrecognised statuses
NextStaff ==
    \/ \E st \in StartTimes : create_public_booking(ClientPhone, "svc-6", <<>>, st, 0)
    \/ \E b \in BookingIds, s \in StatusInputs, sf \in StaffInputs :
            update_booking_status(b, s, sf)
    \/ \E b \in BookingIds, st \in StartTimes, sf \in StaffInputs :
            reschedule_booking(b, st, sf)

SpecStaff == Init /\ [][NextStaff]_vars

\* working hours an administrator may store: no entry for Monday, a short Tuesday
\* off the half-hour grid, Sunday closed
short_working_hours ==
    [i \in 1..6 |->
        IF DayNames[i + 1] = "tuesday"
        THEN [day |-> "tuesday", open |-> HHMM(10, 15), close |-> HHMM(12, 40),
              closed |-> FALSE]
        ELSE [day |-> DayNames[i + 1], open |-> HHMM(11, 0), close |-> HHMM(12, 0),
              closed |-> DayNames[i + 1] = "sunday"]]

\* working hours with every day closed but Sunday, open for half an hour
sunday_only_hours ==
    [i \in 1..7 |->
        [day |-> DayNames[i], open |-> HHMM(11, 0), close |-> HHMM(11, 30),
         closed |-> DayNames[i] # "sunday"]]

\* the salon document after seed_database
SeededSalon ==
    [totalSeats |-> 1, slotDurationMins |-> 30, workingHoursJson |-> default_working_hours]

\* the fields an administrator sets with PATCH /admin/salon
SalonPatches ==
    {[slotDurationMins |-> 20, totalSeats |-> 2],
     [slotDurationMins |-> 0],
     [workingHoursJson |-> short_working_hours],
     [workingHoursJson |-> sunday_only_hours]}

\* bookings of svc-6 today at 10:30 and tomorrow at 10:00, and one with a
\* totalDuration override from 23:30 today until 11:00 tomorrow
SlotShapes ==
    {[startTime |-> Iso(10 * 60 + 30, IST), totalDuration |-> 0],
     [startTime |-> Iso(MinsPerDay + 10 * 60, IST), totalDuration |-> 0],
     [startTime |-> Iso(23 * 60 + 30, IST), totalDuration |-> 11 * 60 + 30]}

\* today (a Monday), tomorrow, and the next Sunday
SlotDates == {0, 1, 6}

\* the totalDuration of an availability query: none, or 45 minutes
SlotDurations == {0, 45}

\* the database before and after seeding, the gate enabled
InitSlots ==
    /\ bookings = <<>>
    /\ changes = <<>>
    /\ features = "on"
    /\ salon \in {SeededSalon, NoSalon}
    /\ now = ClockStart
    /\ last = [op |-> None, code |-> 0]
    /\ calls = <<>>
    /\ req = <<>>

\* availability queries between bookings, cancellations and configuration changes
NextSlots ==
    \/ \E r \in SlotShapes :
            /\ Len(bookings) < MaxSlotBookings
            /\ create_public_booking(ClientPhone, "svc-6", <<>>, r.startTime, r.totalDuration)
    \/ \E b \in BookingIds : update_booking_status(b, CANCELLED, None)
    \/ \E d \in SlotDates, td \in SlotDurations : get_availability("svc-6", d, td)
    \/ \E d \in SlotDates : get_availability("svc-old", d, 0)
    \/ get_next_available_slots("svc-6")
    \/ \E data \in SalonPatches : patch_salon_profile(data)

SpecSlots == InitSlots /\ [][NextSlots]_vars

\* createBooking requests: one service, two services, an inactive service among
\* active ones, only inactive services, and a totalDuration override
CreateRequests ==
    {[serviceId |-> "svc-6", serviceIds |-> <<>>, totalDuration |-> 0],
     [serviceId |-> "svc-6", serviceIds |-> <<"svc-6", "svc-3">>, totalDuration |-> 0],
     [serviceId |-> "svc-old", serviceIds |-> <<"svc-old", "svc-3">>, totalDuration |-> 0],
     [serviceId |-> "svc-old", serviceIds |-> <<>>, totalDuration |-> 0],
     [serviceId |-> "svc-6", serviceIds |-> <<"svc-6", "svc-3">>, totalDuration |-> 45],
     [serviceId |-> "svc-old", serviceIds |-> <<"svc-old">>, totalDuration |-> 45]}

\* 10:30 IST and 11:30 IST, the latter written in UTC
CreateStartTimes == {Iso(10 * 60 + 30, IST), Iso(6 * 60, 0)}

\* createBooking requests of every shape, and cancellations
NextCreate ==
    \/ \E r \in CreateRequests, st \in CreateStartTimes :
            create_public_booking(ClientPhone, r.serviceId, r.serviceIds, st, r.totalDuration)
    \/ \E b \in BookingIds : update_booking_status(b, CANCELLED, None)

SpecCreate == Init /\ [][NextCreate]_vars

----------------------------------------------------------------------------
\* 10:30 and 11:30 IST of day 0, and 10:30 IST of day 1
NotifyStartTimes ==
    {Iso(10 * 60 + 30, IST), Iso(11 * 60 + 30, IST), Iso(MinsPerDay + 10 * 60 + 30, IST)}

\* clients with different phones book, and the salon confirms, cancels and
\* reschedules their bookings
NextNotify ==
    \/ \E ph \in ClientPhones, st \in NotifyStartTimes :
            create_public_booking(ph, "svc-6", <<>>, st, 0)
    \/ \E b \in BookingIds, s \in {CONFIRMED, CANCELLED} :
            update_booking_status(b, s, None)
    \/ \E b \in BookingIds, st \in NotifyStartTimes : reschedule_booking(b, st, None)

SpecNotify == Init /\ [][NextNotify]_vars

\* the totalSeats values the administrator stores
SeatPatches == {[totalSeats |-> 1], [totalSeats |-> 2]}

\* clients book and cancel while the administrator changes totalSeats
NextSeats ==
    \/ \E st \in StartTimes : create_public_booking(ClientPhone, "svc-6", <<>>, st, 0)
    \/ \E b \in BookingIds : update_booking_status(b, CANCELLED, None)
    \/ \E data \in SeatPatches : patch_salon_profile(data)

SpecSeats == Init /\ [][NextSeats]_vars

\* the instants the clock shows: 10:15 IST of day 0, between two candidate
\* windows, and 10:30 IST, the start of one
ClockInstants == {ClockStart, parse_time(Iso(10 * 60 + 30, IST)).instant}

InitClock ==
    /\ bookings = <<>>
    /\ changes = <<>>
    /\ features = "on"
    /\ salon = SeededSalon
    /\ now \in ClockInstants
    /\ last = [op |-> None, code |-> 0]
    /\ calls = <<>>
    /\ req = <<>>

\* bookings from 10:30 and from 11:00 today
ClockStartTimes == {Iso(10 * 60 + 30, IST), Iso(11 * 60, IST)}

\* availability queries for today and tomorrow between bookings and cancellations
NextClock ==
    \/ \E st \in ClockStartTimes :
            create_public_booking(ClientPhone, "svc-6", <<>>, st, 0)
    \/ \E b \in BookingIds : update_booking_status(b, CANCELLED, None)
    \/ \E d \in {0, 1}, td \in SlotDurations : get_availability("svc-6", d, td)

SpecClock == InitClock /\ [][NextClock]_vars

(* BookingLifecycle, requests in flight.  The handlers are coroutines: each *)
(* await on the database is a point where another request may run.  req[p]  *)
(* is the request worker p is serving: its position, its arguments, what it *)
(* has read, and its response.                                              *)

Workers == {1, 2}

NoBooking == NewBooking(None, None, NoTime, NoTime)

Idle ==
    [pc |-> "idle", op |-> None, id |-> 0, serviceId |-> None, duration |-> 0,
     startTime |-> NoTime, endTime |-> NoTime, booking |-> NoBooking, code |-> 0,
     status |-> None]

\* the requests that have not written or failed yet
InFlight == {p \in Workers : req[p].pc \notin {"idle", "done"}}

\* a new request is taken while the run has writes left
MayReceive(p) ==
    /\ req[p].pc = "idle"
    /\ Len(bookings) + Len(changes) + Cardinality(InFlight) < MaxWrites

Failed(p, code) == [req EXCEPT ![p].pc = "done", ![p].code = code]

\* create_public_booking up to the availability check: the gate, the services,
\* the duration and end_time
CreateReceive(p, serviceId, startTime, totalDuration) ==
    /\ MayReceive(p)
    /\ LET received ==
               [Idle EXCEPT !.op = "createBooking", !.serviceId = serviceId,
                            !.startTime = startTime,
                            !.duration = TotalDuration(serviceId, <<>>, totalDuration),
                            !.endTime = CreateEndTime(serviceId, <<>>, startTime,
                                                      totalDuration)]
       IN  req' = [req EXCEPT ![p] =
                      IF ~BookingEnabled THEN [received EXCEPT !.pc = "done", !.code = 403]
                      ELSE IF salon = NoSalon \/ ~AnyActive(<<serviceId>>)
                           THEN [received EXCEPT !.pc = "done", !.code = 404]
                      ELSE [received EXCEPT !.pc = "check"]]
    /\ UNCHANGED <<bookings, changes, features, salon, now, last, calls>>

\* await check_slot_available(...) of create_public_booking
CreateCheck(p) ==
    /\ req[p].pc = "check" /\ req[p].op = "createBooking"
    /\ req' = IF check_slot_available(req[p].startTime, req[p].endTime, 0)
              THEN [req EXCEPT ![p].pc = "insert"]
              ELSE Failed(p, 409)
    /\ UNCHANGED <<bookings, changes, features, salon, now, last, calls>>

\* await db.bookings.insert_one(booking.model_dump())
CreateInsert(p) ==
    /\ req[p].pc = "insert"
    /\ bookings' = Append(bookings,
                          NewBooking(ClientPhone, req[p].serviceId, req[p].startTime,
                                     req[p].endTime))
    /\ calls' = Append(calls, Created(req[p].duration))
    /\ req' = [req EXCEPT ![p].pc = "done", ![p].code = 200,
                          ![p].id = Len(bookings) + 1]
    /\ UNCHANGED <<changes, features, salon, now, last>>

\* reschedule_booking up to the availability check: the gate, the booking, its
\* duration, the past-time check and new_end
RescheduleReceive(p, booking_id, newStartTime) ==
    /\ MayReceive(p)
    /\ LET received == [Idle EXCEPT !.op = "rescheduleBooking", !.id = booking_id,
                                    !.startTime = newStartTime]
           code == RescheduleCode(booking_id, newStartTime)
       IN  req' = [req EXCEPT ![p] =
                      IF code \in {403, 404, 400}
                      THEN [received EXCEPT !.pc = "done", !.code = code]
                      ELSE [received EXCEPT
                               !.pc = "check",
                               !.booking = bookings[booking_id],
                               !.serviceId = bookings[booking_id].serviceId,
                               !.duration = DurationMins(bookings[booking_id]),
                               !.endTime = RescheduleEndTime(bookings[booking_id],
                                                             newStartTime)]]
    /\ UNCHANGED <<bookings, changes, features, salon, now, last, calls>>

\* await check_slot_available(..., exclude_booking_id = booking_id)
RescheduleCheck(p) ==
    /\ req[p].pc = "check" /\ req[p].op = "rescheduleBooking"
    /\ req' = IF check_slot_available(req[p].startTime, req[p].endTime, req[p].id)
              THEN [req EXCEPT ![p].pc = "update"]
              ELSE Failed(p, 409)
    /\ UNCHANGED <<bookings, changes, features, salon, now, last, calls>>

\* await db.bookings.update_one({"id": booking_id}, {"$set": update_data})
RescheduleWrite(p) ==
    /\ req[p].pc = "update"
    /\ bookings' = [bookings EXCEPT ![req[p].id] =
                       [@ EXCEPT !.startTime = req[p].startTime,
                                 !.endTime = req[p].endTime,
                                 !.status = CONFIRMED]]
    /\ req' = [req EXCEPT ![p].pc = "audit"]
    /\ UNCHANGED <<changes, features, salon, now, last, calls>>

\* await db.booking_changes.insert_one(change.model_dump()), and the response
RescheduleAudit(p) ==
    /\ req[p].pc = "audit"
    /\ changes' = LogReschedule(req[p].id, req[p].booking, req[p].startTime, None)
    /\ calls' = [calls EXCEPT ![req[p].id].reschedule = @ + 1]
    /\ req' = [req EXCEPT ![p].pc = "done", ![p].code = 200]
    /\ UNCHANGED <<bookings, features, salon, now, last>>

\* update_booking_status up to its update: the gate, the booking it reads, and the
\* validation of the status
StatusReceive(p, booking_id, status) ==
    /\ MayReceive(p)
    /\ LET received == [Idle EXCEPT !.op = "updateBookingStatus", !.id = booking_id,
                                    !.status = status]
           code == UpdateStatusCode(booking_id, status)
       IN  req' = [req EXCEPT ![p] =
                      IF code # 200
                      THEN [received EXCEPT !.pc = "done", !.code = code]
                      ELSE [received EXCEPT !.pc = "set_status",
                                            !.booking = bookings[booking_id]]]
    /\ UNCHANGED <<bookings, changes, features, salon, now, last, calls>>

\* await db.bookings.update_one({"id": booking_id}, {"$set": update_data})
StatusWrite(p) ==
    /\ req[p].pc = "set_status"
    /\ bookings' = [bookings EXCEPT ![req[p].id] = StatusUpdate(@, req[p].status, None)]
    /\ req' = [req EXCEPT ![p].pc = "log_status"]
    /\ UNCHANGED <<changes, features, salon, now, last, calls>>

\* await db.booking_changes.insert_one(change.model_dump()): old_status and
\* old_staff_id are those of the booking as it was read
StatusAudit(p) ==
    /\ req[p].pc = "log_status"
    /\ changes' = LogStatusChange(req[p].id, req[p].booking, req[p].status, None)
    /\ calls' = [calls EXCEPT ![req[p].id].status = @ + 1]
    /\ req' = [req EXCEPT ![p].pc = "done", ![p].code = 200]
    /\ UNCHANGED <<bookings, features, salon, now, last>>

\* the response leaves the worker free for the next request
Respond(p) ==
    /\ req[p].pc = "done"
    /\ last' = IF req[p].op = "rescheduleBooking"
               THEN Response(req[p].op, req[p].code,
                             generate_whatsapp_notification(bookings[req[p].id],
                                 "rescheduled", req[p].startTime))
               ELSE IF req[p].op = "updateBookingStatus"
               THEN Response(req[p].op, req[p].code,
                             StatusNotification(bookings[req[p].id], req[p].status))
               ELSE [op |-> req[p].op, code |-> req[p].code]
    /\ req' = [req EXCEPT ![p] = Idle]
    /\ UNCHANGED <<bookings, changes, features, salon, now, calls>>

InitWorkers ==
    /\ bookings = <<>>
    /\ changes = <<>>
    /\ features = "on"
    /\ salon = [totalSeats |-> 1, slotDurationMins |-> 30,
                workingHoursJson |-> default_working_hours]
    /\ now = ClockStart
    /\ last = [op |-> None, code |-> 0]
    /\ calls = <<>>
    /\ req = [p \in Workers |-> Idle]

\* two workers serving createBooking requests
NextRace ==
    \E p \in Workers :
        \/ \E r \in CreateShapes, st \in StartTimes :
              CreateReceive(p, r.serviceId, st, r.totalDuration)
        \/ CreateCheck(p)
        \/ CreateInsert(p)
        \/ Respond(p)

SpecRace == InitWorkers /\ [][NextRace]_vars

\* two workers serving updateBookingStatus requests, the first one createBooking
\* requests too
NextStatusRace ==
    \/ CreateReceive(1, "svc-6", Iso(10 * 60 + 30, IST), 0)
    \/ CreateCheck(1)
    \/ CreateInsert(1)
    \/ \E p \in Workers :
          \/ \E b \in BookingIds, s \in {CONFIRMED, CANCELLED, COMPLETED} :
                StatusReceive(p, b, s)
          \/ StatusWrite(p)
          \/ StatusAudit(p)
          \/ Respond(p)

SpecStatusRace == InitWorkers /\ [][NextStatusRace]_vars

\* two workers serving createBooking, updateBookingStatus and rescheduleBooking
\* requests while an administrator switches the gate
NextGateRace ==
    \/ \E enabled \in BOOLEAN : update_feature_flags(enabled)
    \/ CreateReceive(1, "svc-6", Iso(10 * 60 + 30, IST), 0)
    \/ CreateCheck(1)
    \/ CreateInsert(1)
    \/ \E p \in Workers :
          \/ \E b \in BookingIds : StatusReceive(p, b, CANCELLED)
          \/ StatusWrite(p)
          \/ StatusAudit(p)
          \/ \E b \in BookingIds : RescheduleReceive(p, b, Iso(11 * 60, IST))
          \/ RescheduleCheck(p)
          \/ RescheduleWrite(p)
          \/ RescheduleAudit(p)
          \/ Respond(p)

SpecGateRace == InitWorkers /\ [][NextGateRace]_vars

RescheduleStartTimes == StartTimes \cup {Iso(11 * 60, IST)}

\* two workers serving rescheduleBooking requests, the first one createBooking
\* requests too: no two createBooking requests are ever in flight together
NextResched ==
    \/ \E st \in RescheduleStartTimes : CreateReceive(1, "svc-6", st, 0)
    \/ CreateCheck(1)
    \/ CreateInsert(1)
    \/ \E p \in Workers :
          \/ \E b \in BookingIds, st \in RescheduleStartTimes : RescheduleReceive(p, b, st)
          \/ RescheduleCheck(p)
          \/ RescheduleWrite(p)
          \/ RescheduleAudit(p)
          \/ Respond(p)

SpecResched == InitWorkers /\ [][NextResched]_vars

----------------------------------------------------------------------------
(* Properties. *)

StartInstant(booking) == booking.startTime.local - booking.startTime.off
EndInstant(booking) == booking.endTime.local - booking.endTime.off

\* the bookings, not cancelled, whose [startTime, endTime) contains instant t
ActiveAt(t) ==
    {i \in DOMAIN bookings :
        /\ bookings[i].status # CANCELLED
        /\ StartInstant(bookings[i]) <= t
        /\ t < EndInstant(bookings[i])}

\* At no instant do more than totalSeats bookings that are not cancelled overlap.
\* (Bookings that share an instant share the latest of their start instants.)
CapacityInvariant ==
    \A i \in DOMAIN bookings :
        Cardinality(ActiveAt(StartInstant(bookings[i]))) <= salon.totalSeats

\* every status update so far was a cancellation
OnlyCancellations ==
    \A k \in DOMAIN changes : changes[k].newStatus \in {None, CANCELLED}

\* C1: with requests handled one at a time and totalSeats fixed, after any
\* sequence of createBooking, setStatus(cancelled) and rescheduleBooking calls no
\* instant lies in more than totalSeats bookings that are not cancelled.
C1_CapacityOneAtATime == OnlyCancellations => CapacityInvariant

\* C4: a status update never adds capacity pressure: when the capacity
\* invariant holds before a successful updateBookingStatus, it holds after it.
C4_StatusUpdateKeepsCapacity ==
    [][(last'.op = "updateBookingStatus" /\ last'.code = 200 /\ CapacityInvariant)
        => CapacityInvariant']_vars

\* the starts of the candidate windows of a date for a duration: open + k * step,
\* while the window ends by closing time
CandidateStarts(date, duration) ==
    LET hours == get_working_hours_for_date(date)
        open == AtTime(date, hours.open)
        close == AtTime(date, hours.close)
        step == salon.slotDurationMins
    IN  IF hours = Closed THEN {}
        ELSE {PlusMinutes(open, k * step) :
                k \in {n \in 0..((close.instant - open.instant) \div step) :
                          open.instant + n * step + duration <= close.instant}}

\* the remainingSeats the availability query reports for the window of a service
\* that starts at start, or zero when the window is not listed
RemainingSeats(service_id, date, start) ==
    LET slots == get_available_slots(service_id, date, 0)
        hit == {j \in DOMAIN slots : slots[j].startTime = isoformat(start)}
    IN  IF hit = {} THEN 0 ELSE slots[CHOOSE j \in hit : TRUE].remainingSeats

\* the window [start, start + duration) shares an instant with the booking
WindowOverlaps(start, duration, booking) ==
    /\ StartInstant(booking) < start.instant + duration
    /\ start.instant < EndInstant(booking)
    /\ StartInstant(booking) < EndInstant(booking)

\* C5: cancelling a booking that was not cancelled strictly increases the
\* remainingSeats the availability query reports (zero when not listed) for every
\* candidate window overlapping the booking, and the conflict guard no longer
\* counts the booking.  Stated for the windows that have not started yet: the
\* query never lists a window of today that is already past.
C5_CancelFreesSeat ==
    [][\A b \in DOMAIN bookings :
          (/\ bookings[b].status # CANCELLED
           /\ last'.op = "updateBookingStatus" /\ last'.code = 200
           /\ bookings'[b].status = CANCELLED)
          => \A sid \in {"svc-6", "svc-3"}, d \in Dates :
               \A w \in CandidateStarts(d, Services[sid].durationMins) :
                  (/\ WindowOverlaps(w, Services[sid].durationMins, bookings[b])
                   /\ ~DtLt(w, NowIST))
                  => /\ RemainingSeats(sid, d, w)' > RemainingSeats(sid, d, w)
                     /\ b \notin OverlapQuery(isoformat(w),
                            isoformat(PlusMinutes(w, Services[sid].durationMins)), 0)'
      ]_vars

GatedOps ==
    {"getAvailability", "createBooking", "listBookings", "getBookingDetail",
     "updateBookingStatus", "rescheduleBooking", "getBookingChanges", "getNextAvailable"}

\* C6: while the gate is disabled (flag false or flag document absent) every
\* availability and booking operation answers 403 and leaves the bookings, the
\* audit records and the configuration as they were, so that after re-enabling
\* requests meet the state they would have met had the gate never been disabled.
C6_GateBlocksEverything ==
    [][(features # "on" /\ last'.op \in GatedOps)
        => (last'.code = 403 /\ UNCHANGED <<bookings, changes, salon, calls>>)]_vars

\* a reschedule was refused at the closed gate, which had been open before
C6_Witness ==
    /\ features = "off"
    /\ last = [op |-> "rescheduleBooking", code |-> 403]
    /\ Len(bookings) > 0 /\ Len(changes) > 0

\* C7: a createBooking or rescheduleBooking that fails (400, 403, 404 or 409)
\* leaves every booking and every audit record exactly as it was.
C7_FailureLeavesState ==
    [][(last'.op \in {"createBooking", "rescheduleBooking"}
        /\ last'.code \in {400, 403, 404, 409})
        => (bookings' = bookings /\ changes' = changes)]_vars

\* a reschedule was refused with Conflict while another booking holds the window
C7_Witness ==
    /\ last = [op |-> "rescheduleBooking", code |-> 409]
    /\ \E i, j \in DOMAIN bookings :
          i # j /\ bookings[i].status # CANCELLED /\ bookings[j].status # CANCELLED

AuditCount(b) == Cardinality({k \in DOMAIN changes : changes[k].bookingId = b})

C9_DurationPreserved ==
    \A b \in DOMAIN bookings :
        EndInstant(bookings[b]) - StartInstant(bookings[b]) = calls[b].duration

\* a booking whose duration is not its service's was cancelled and then
\* rescheduled, and its start is now written in UTC
C9_Witness ==
    \E b \in DOMAIN bookings :
        /\ calls[b].reschedule > 0
        /\ calls[b].duration # Services[bookings[b].serviceId].durationMins
        /\ bookings[b].startTime.off = 0
        /\ \E j, k \in DOMAIN changes :
              /\ j < k
              /\ changes[j].bookingId = b /\ changes[j].newStatus = CANCELLED
              /\ changes[k].bookingId = b /\ changes[k].newStartTime # NoTime

\* C10: a reschedule to a start before the current instant answers 400, whether
\* the target window is free or full, and changes neither the booking nor the
\* audit trail.
C10_PastRescheduleRejected ==
    [][\A b \in DOMAIN bookings, st \in StartTimes :
          (BookingEnabled /\ st.local - st.off < now /\ reschedule_booking(b, st, None))
          => (last'.code = 400 /\ bookings' = bookings /\ changes' = changes)]_vars

\* a reschedule into the past was refused while another booking fills that window
C10_Witness ==
    /\ last = [op |-> "rescheduleBooking", code |-> 400]
    /\ \E i, j \in DOMAIN bookings :
          /\ i # j
          /\ bookings[i].status # CANCELLED
          /\ StartInstant(bookings[i]) < now
          /\ now <= StartInstant(bookings[j])

\* the bookings other than those of workers p and q that the conflict guard
\* counts for the window of worker p's request
CountedBesides(p, q) ==
    OverlapQuery(req[p].startTime, req[p].endTime, 0) \ {req[p].id, req[q].id}

\* C2: when exactly one seat remains for a window and two createBooking requests
\* for that window are served together, one of them persists a booking and the
\* other one fails with 409.
C2_OneCreateWins ==
    \A p, q \in Workers :
        (/\ p # q
         /\ req[p].pc = "done" /\ req[p].op = "createBooking"
         /\ req[q].pc = "done" /\ req[q].op = "createBooking"
         /\ req[p].startTime = req[q].startTime /\ req[p].endTime = req[q].endTime
         /\ req[p].code \in {200, 409} /\ req[q].code \in {200, 409}
         /\ Cardinality(CountedBesides(p, q)) = salon.totalSeats - 1)
        => {req[p].code, req[q].code} = {200, 409}

\* C3: under any interleaving of rescheduleBooking requests with each other and
\* with createBooking requests, no state, the states between a request's
\* availability check and its write included, has more than totalSeats
\* non-cancelled bookings at one instant.
C3_RescheduleKeepsCapacity ==
    \A t \in {StartInstant(bookings[i]) : i \in DOMAIN bookings} :
        Cardinality(ActiveAt(t)) <= salon.totalSeats

\* C11: after every successful rescheduleBooking the booking's status is confirmed,
\* whatever it was before, and its startTime is the requested newStartTime as
\* given.
C11_RescheduleConfirms ==
    [][\A b \in DOMAIN bookings, st \in MixedStartTimes :
          (reschedule_booking(b, st, None) /\ last'.code = 200)
          => (bookings'[b].status = CONFIRMED /\ bookings'[b].startTime = st)]_vars

\* a booking marked completed was rescheduled to a start written in UTC
C11_Witness ==
    /\ last.op = "rescheduleBooking" /\ last.code = 200
    /\ \E j \in DOMAIN changes :
          /\ j + 1 \in DOMAIN changes
          /\ changes[j].bookingId = changes[j + 1].bookingId
          /\ changes[j].newStatus = COMPLETED
          /\ changes[j + 1].newStartTime = Iso(5 * 60, 0)
          /\ bookings[changes[j].bookingId].status = CONFIRMED

\* C12: updateBookingStatus with a status outside the five recognised values
\* answers 400 for an existing booking, leaves the booking as it was and writes no
\* audit record.
C12_InvalidStatusRejected ==
    [][\A b \in DOMAIN bookings, s \in StatusInputs \ valid_statuses, sf \in StaffInputs :
          (BookingEnabled /\ update_booking_status(b, s, sf))
          => (last'.code = 400 /\ bookings' = bookings /\ changes' = changes)]_vars

\* an unrecognised status was refused for a booking that has staff assigned
C12_Witness ==
    /\ last = [op |-> "updateBookingStatus", code |-> 400]
    /\ \E b \in DOMAIN bookings : bookings[b].staffId # None
    /\ Len(changes) > 0

\* C13: every slot getAvailability returns starts at or after the resolved open
\* time of the date, ends at or before the resolved close time, and is as long as
\* the requested duration (the totalDuration override, else the service's), for
\* every date, working-hours configuration and step.
C13_SlotsWithinHours ==
    (last.op = "getAvailability" /\ last.code = 200)
    => \A j \in DOMAIN last.slots :
          LET slot == last.slots[j]
              hours == get_working_hours_for_date(last.date)
          IN  /\ hours # Closed
              /\ AtTime(last.date, hours.open).instant <= parse_time(slot.startTime).instant
              /\ parse_time(slot.endTime).instant <= AtTime(last.date, hours.close).instant
              /\ parse_time(slot.endTime).instant - parse_time(slot.startTime).instant
                   = SlotDuration(last.serviceId, last.totalDuration)

\* with a step of 20 minutes and Tuesday open 10:15 to 12:40, a 45-minute query
\* returned the window that ends at closing time
C13_Witness ==
    /\ last.op = "getAvailability" /\ last.code = 200
    /\ last.totalDuration = 45
    /\ salon # NoSalon
    /\ salon.slotDurationMins = 20
    /\ \E j \in DOMAIN last.slots :
          /\ last.slots[j].endTime = Iso(MinsPerDay + 12 * 60 + 40, IST)
          /\ last.slots[j].startTime = Iso(MinsPerDay + 11 * 60 + 55, IST)

\* the non-cancelled bookings whose interval shares an instant with the window
\* [start, start + duration)
OverlappingBookings(start, duration) ==
    {i \in DOMAIN bookings :
        bookings[i].status # CANCELLED /\ WindowOverlaps(start, duration, bookings[i])}

\* C14: for a future date getAvailability returns exactly the candidate windows
\* [open + k * step, open + k * step + duration) that fewer than totalSeats
\* non-cancelled bookings overlap, each with remainingSeats = totalSeats minus
\* that count; intervals that only touch do not overlap.
C14_ExactlyFreeWindows ==
    (/\ last.op = "getAvailability" /\ last.code = 200
     /\ last.date > Today /\ ActiveService(last.serviceId))
    => LET duration == SlotDuration(last.serviceId, last.totalDuration)
           free == {w \in CandidateStarts(last.date, duration) :
                       Cardinality(OverlappingBookings(w, duration)) < salon.totalSeats}
       IN  /\ {last.slots[j].startTime : j \in DOMAIN last.slots}
                = {isoformat(w) : w \in free}
           /\ \A j \in DOMAIN last.slots :
                 /\ last.slots[j].endTime
                      = isoformat(PlusMinutes(parse_time(last.slots[j].startTime), duration))
                 /\ last.slots[j].remainingSeats
                      = salon.totalSeats
                        - Cardinality(OverlappingBookings(
                              parse_time(last.slots[j].startTime), duration))

\* C15: with the gate enabled, getAvailability answers 404 when the salon is
\* missing and also when the requested service is missing or inactive.
C15_AvailabilityNotFound ==
    (/\ last.op = "getAvailability"
     /\ BookingEnabled
     /\ (salon = NoSalon \/ ~ActiveService(last.serviceId)))
    => last.code = 404

\* the requested service ids that resolve to an active service
ActiveRequested(r) ==
    LET ids == IF r.serviceIds # <<>> THEN r.serviceIds ELSE <<r.serviceId>>
    IN  {i \in DOMAIN ids : ids[i] \in DOMAIN Services /\ Services[ids[i]].active}

RECURSIVE SumOver(_, _)
SumOver(ids, indices) ==
    IF indices = {} THEN 0
    ELSE LET i == CHOOSE j \in indices : TRUE
         IN  Services[ids[i]].durationMins + SumOver(ids, indices \ {i})

\* the duration the spec gives a createBooking request
ExpectedDuration(r) ==
    IF r.totalDuration # 0 THEN r.totalDuration
    ELSE SumOver(IF r.serviceIds # <<>> THEN r.serviceIds ELSE <<r.serviceId>>,
                 ActiveRequested(r))

\* C16: a successful createBooking persists exactly one new booking, pending, with
\* the requested startTime and an endTime that is the start plus the totalDuration
\* override when given, else plus the sum of the durations of the requested
\* services that are active; with no active service it answers 404, and when the
\* conflict guard rejects the window it answers 409.
C16_CreatePersistsOneBooking ==
    [][\A r \in CreateRequests, st \in CreateStartTimes :
          create_public_booking(ClientPhone, r.serviceId, r.serviceIds, st, r.totalDuration)
          => /\ last'.code = 200
                  => /\ Len(bookings') = Len(bookings) + 1
                     /\ SubSeq(bookings', 1, Len(bookings)) = bookings
                     /\ bookings'[Len(bookings')].status = PENDING
                     /\ bookings'[Len(bookings')].startTime = st
                     /\ bookings'[Len(bookings')].endTime.off = st.off
                     /\ EndInstant(bookings'[Len(bookings')])
                          = (st.local - st.off) + ExpectedDuration(r)
             /\ ActiveRequested(r) = {} => last'.code = 404
             /\ (/\ ActiveRequested(r) # {}
                 /\ ~check_slot_available(st,
                        Iso(st.local + ExpectedDuration(r), st.off), 0))
                  => last'.code = 409
             /\ last'.code \in {200, 404, 409}
             /\ last'.code # 200 => bookings' = bookings]_vars

\* a booking whose inactive primary service was skipped in the sum, another made
\* with an override, and a request answered 409
C16_Witness ==
    /\ last = [op |-> "createBooking", code |-> 409]
    /\ \E i, j \in DOMAIN bookings :
          /\ bookings[i].serviceId = "svc-old" /\ calls[i].duration = 60
          /\ calls[j].duration = 45

\* the slots getAvailability offers for the service over the first n dates from
\* today on, date after date
RECURSIVE Offered(_, _)
Offered(serviceId, n) ==
    IF n = 0 THEN <<>>
    ELSE Offered(serviceId, n - 1) \o get_available_slots(serviceId, Today + n - 1, 0)

\* C17: getNextAvailable terminates after querying at most 14 consecutive dates
\* from today on and returns at most 3 slots: the earliest ones getAvailability
\* offers across those dates, in increasing start order, and fewer than 3 only
\* when the whole horizon offers fewer.
C17_NextAvailableEarliest ==
    (last.op = "getNextAvailable" /\ BookingEnabled /\ salon # NoSalon)
    => /\ last.code = 200
       /\ last.days <= Horizon
       /\ Len(last.slots) <= NextLimit
       /\ LET offered == Offered(last.serviceId, Horizon)
          IN  /\ Len(last.slots) < NextLimit => Len(offered) = Len(last.slots)
              /\ last.slots = SubSeq(offered, 1, Len(last.slots))
       /\ \A j, k \in DOMAIN last.slots :
             j < k => DtLt(parse_time(last.slots[j].startTime),
                           parse_time(last.slots[k].startTime))

\* C18: every successful updateBookingStatus writes one audit record whose
\* oldStatus and oldStaffId are the booking's status and staffId before the call
\* and whose newStatus and newStaffId are its status and staffId after the call,
\* with a staffId supplied and with the staffId omitted.
C18_AuditCapturesOldAndNew ==
    [][\A b \in DOMAIN bookings, s \in StatusInputs, sf \in StaffInputs :
          (update_booking_status(b, s, sf) /\ last'.code = 200)
          => /\ Len(changes') = Len(changes) + 1
             /\ SubSeq(changes', 1, Len(changes)) = changes
             /\ LET change == changes'[Len(changes')]
                IN  /\ change.bookingId = b
                    /\ change.oldStatus = bookings[b].status
                    /\ change.oldStaffId = bookings[b].staffId
                    /\ change.newStatus = bookings'[b].status
                    /\ change.newStaffId = bookings'[b].staffId]_vars

\* C19: a successful updateBookingStatus changes only the booking's status and,
\* when a staffId is supplied, its staffId; with no staffId supplied the staffId
\* keeps its value, and startTime, endTime and service never change, nor does any
\* other booking.
C19_StatusUpdateFrame ==
    [][\A b \in DOMAIN bookings, s \in StatusInputs, sf \in StaffInputs :
          (update_booking_status(b, s, sf) /\ last'.code = 200)
          => /\ DOMAIN bookings' = DOMAIN bookings
             /\ \A i \in DOMAIN bookings : i # b => bookings'[i] = bookings[i]
             /\ bookings'[b].status = s
             /\ bookings'[b].staffId = (IF sf = None THEN bookings[b].staffId ELSE sf)
             /\ bookings'[b].startTime = bookings[b].startTime
             /\ bookings'[b].endTime = bookings[b].endTime
             /\ bookings'[b].serviceId = bookings[b].serviceId]_vars

\* a status update without staffId was applied to a booking that has staff, and
\* the booking still has it
C19_Witness ==
    /\ last.op = "updateBookingStatus" /\ last.code = 200
    /\ changes # <<>>
    /\ LET change == changes[Len(changes)]
       IN  /\ change.newStatus = CANCELLED
           /\ change.newStaffId = None
           /\ change.oldStaffId = "staff-1"
           /\ bookings[change.bookingId].staffId = "staff-1"

\* the message of the link carries the date and time of the start time written as s
Mentions(url, s) ==
    /\ url.date = FormatDate(parse_time(s))
    /\ url.time = FormatTime(parse_time(s))

\* C20: the notification a successful rescheduleBooking composes is addressed to
\* the booking's client phone and carries both the start time the booking had
\* before the reschedule and its new start time.
C20_RescheduleNotification ==
    [][\A b \in DOMAIN bookings, st \in NotifyStartTimes :
          (reschedule_booking(b, st, None) /\ last'.code = 200)
          => LET url == last'.whatsappNotificationUrl
             IN  /\ url.type = "rescheduled"
                 /\ url.phone = bookings[b].clientPhone
                 /\ Mentions(url, st)
                 /\ Mentions(url, bookings[b].startTime)]_vars

\* C21: when the capacity invariant holds and the administrator changes totalSeats
\* through the salon-profile update, the capacity invariant holds afterwards.
C21_SeatChangeKeepsCapacity ==
    [][(last'.op = "patchSalon" /\ salon'.totalSeats # salon.totalSeats
        /\ CapacityInvariant) => CapacityInvariant']_vars

\* C22: for a future date the availability query and the conflict guard agree:
\* createBooking for the start and duration of a slot getAvailability returns is
\* accepted in the same state, and createBooking for a candidate window inside
\* working hours that getAvailability omits is rejected with 409.
C22_QueryAgreesWithGuard ==
    (/\ last.op = "getAvailability" /\ last.code = 200
     /\ last.date > Today /\ ActiveService(last.serviceId)
     /\ salon.slotDurationMins > 0)
    => LET duration == SlotDuration(last.serviceId, last.totalDuration)
           offered == {last.slots[j].startTime : j \in DOMAIN last.slots}
       IN  \A w \in CandidateStarts(last.date, duration) :
              CreateStatus(last.serviceId, <<>>, isoformat(w), last.totalDuration)
                = IF isoformat(w) \in offered THEN 200 ELSE 409

\* C23: getAvailability always answers, whatever slotDurationMins the salon
\* profile stores, and the starts of the slots it returns are strictly increasing
\* and lie on the grid open + k * slotDurationMins.
C23_AvailabilityTerminates ==
    last.op = "getAvailability"
    => /\ last.code # NoResponse
       /\ \A i, j \in DOMAIN last.slots :
             i < j => DtLt(parse_time(last.slots[i].startTime),
                           parse_time(last.slots[j].startTime))
       /\ \A j \in DOMAIN last.slots :
             \E k \in 0..MinsPerDay :
                parse_time(last.slots[j].startTime)
                  = PlusMinutes(AtTime(last.date,
                                       get_working_hours_for_date(last.date).open),
                                k * salon.slotDurationMins)

\* C24: when the queried date is today, getAvailability returns no window whose
\* start is at or before the current instant, the window that starts exactly now
\* included, and returns every candidate window that starts later and that fewer
\* than totalSeats non-cancelled bookings overlap.
C24_TodayExcludesStarted ==
    (/\ last.op = "getAvailability" /\ last.code = 200
     /\ last.date = Today /\ ActiveService(last.serviceId))
    => LET duration == SlotDuration(last.serviceId, last.totalDuration)
           later == {w \in CandidateStarts(last.date, duration) :
                       /\ now < w.instant
                       /\ Cardinality(OverlappingBookings(w, duration)) < salon.totalSeats}
       IN  /\ \A j \in DOMAIN last.slots : now < parse_time(last.slots[j].startTime).instant
           /\ \A w \in later : \E j \in DOMAIN last.slots :
                 last.slots[j].startTime = isoformat(w)

\* the other non-cancelled bookings whose interval shares an instant with the
\* window the booking would occupy from newStartTime on
OthersInTarget(b, newStartTime) ==
    OverlappingBookings(parse_time(newStartTime), DurationMins(bookings[b])) \ {b}

\* C25: with totalSeats = 1 a rescheduleBooking to a window that has not started
\* is answered 200 when no other non-cancelled booking overlaps the target window,
\* even when the target overlaps the booking's own current window, and 409 when
\* another non-cancelled booking overlaps it.
C25_OwnWindowNeverBlocks ==
    [][\A b \in DOMAIN bookings, st \in MixedStartTimes :
          (/\ reschedule_booking(b, st, None)
           /\ salon.totalSeats = 1
           /\ ~DtLt(parse_time(st), NowIST))
          => last'.code = IF OthersInTarget(b, st) = {} THEN 200 ELSE 409]_vars

\* C26: for every existing booking, whatever its current status, an
\* updateBookingStatus to any of the five recognised statuses is answered 200,
\* sets the status to the target and writes an audit record from the old to the
\* new status; no pair of statuses is rejected.
C26_AnyTransitionAccepted ==
    [][\A b \in DOMAIN bookings, s \in valid_statuses :
          update_booking_status(b, s, None)
          => /\ last'.code = 200
             /\ bookings'[b].status = s
             /\ Len(changes') = Len(changes) + 1
             /\ changes'[Len(changes')].bookingId = b
             /\ changes'[Len(changes')].oldStatus = bookings[b].status
             /\ changes'[Len(changes')].newStatus = s]_vars

\* a booking went from pending to completed, back to pending, and from pending to
\* pending again
C26_Witness ==
    /\ last.op = "updateBookingStatus" /\ last.code = 200
    /\ \E j \in DOMAIN changes :
          /\ j + 2 \in DOMAIN changes
          /\ changes[j].bookingId = changes[j + 1].bookingId
          /\ changes[j].bookingId = changes[j + 2].bookingId
          /\ changes[j].oldStatus = PENDING /\ changes[j].newStatus = COMPLETED
          /\ changes[j + 1].oldStatus = COMPLETED /\ changes[j + 1].newStatus = PENDING
          /\ changes[j + 2].oldStatus = PENDING /\ changes[j + 2].newStatus = PENDING
          /\ bookings[changes[j].bookingId].status = PENDING

\* the status the audit trail gives a booking: the newStatus of the last record
\* of the booking that carries one, or pending when no record does
AuditedStatus(b) ==
    LET carrying == {k \in DOMAIN changes :
                        changes[k].bookingId = b /\ changes[k].newStatus # None}
    IN  IF carrying = {} THEN PENDING
        ELSE changes[CHOOSE k \in carrying : \A j \in carrying : j <= k].newStatus

\* C27: with operations run one at a time, in every reachable state the status of
\* each booking is the one its audit trail gives it.
C27_AuditReconstructsStatus ==
    \A b \in DOMAIN bookings : bookings[b].status = AuditedStatus(b)

\* C28: when updateBookingStatus requests for one booking interleave, the
\* oldStatus each request records is the status the booking held just before that
\* request's update was applied, and once every request has completed the
\* booking's status is the newStatus of the audit record inserted last.
C28_InterleavedStatusAudit ==
    [][/\ \A p \in Workers :
             StatusWrite(p) => req[p].booking.status = bookings[req[p].id].status
       /\ InFlight' = {}
             => \A b \in DOMAIN bookings' : bookings'[b].status = AuditedStatus(b)']_vars

\* C29: under any interleaving of an administrator switching the gate with
\* createBooking, updateBookingStatus and rescheduleBooking requests in flight,
\* every write to the bookings or to the audit records happens in a state where
\* booking_calendar_enabled is true.
C29_NoWriteWhileDisabled ==
    [][(bookings' # bookings \/ changes' # changes) => BookingEnabled]_vars

\* the availability query for the date (IST) and duration of the request lists a
\* window that starts at the instant startTime names
OfferedWindow(serviceId, startTime, totalDuration) ==
    LET start == parse_time(startTime)
        date == (start.instant + IST) \div MinsPerDay
        slots == get_available_slots(serviceId, date, totalDuration)
    IN  \E j \in DOMAIN slots : parse_time(slots[j].startTime).instant = start.instant

\* C30: every booking createBooking persists occupies a window that
\* getAvailability offers in the state just before the call: on an open day,
\* within its working hours, on the slot grid and not started yet.
C30_CreatedWindowWasOffered ==
    [][\A r \in CreateShapes, st \in StartTimes :
          (/\ create_public_booking(ClientPhone, r.serviceId, <<>>, st, r.totalDuration)
           /\ last'.code = 200)
          => OfferedWindow(r.serviceId, st, r.totalDuration)]_vars

====
